---- MODULE Spec2Model ----
(***************************************************************************)
(* Model of app_working.py: the proxy pool (SyncProxyManager), the search  *)
(* engine (SyncSearchEngine.search_with_requests) and the channel finder   *)
(* (SyncChannelFinder.find_channels_for_user).                             *)
(*                                                                         *)
(* Text is modelled as a sequence of tokens (a token is a piece of a       *)
(* string that the code never looks inside); Python's None is NoProxy for  *)
(* a proxy and NoneUrl for a string.                                       *)
(***************************************************************************)
EXTENDS Integers, Sequences, FiniteSets, TLC

VARIABLES
    \* ---- SyncProxyManager
    proxy_file,       \* the proxy source handed to the constructor
    load_pc,          \* position inside load_proxies
    load_i,           \* number of rows of the source already read
    proxies,          \* self.proxies
    current_index,    \* self.current_index
    failed_proxies,   \* self.failed_proxies
    warned,           \* st.warning was called by load_proxies
    informed,         \* st.info("Loaded ...") was called by load_proxies
    \* ---- observations of the pool's callers
    lastOp,           \* the latest pool operation
    lastRet,          \* what the latest get_next_proxy returned
    marked,           \* every key mark_proxy_failed was called with
    hist,             \* the latest returns of get_next_proxy, newest last
    \* ---- SyncSearchEngine.search_with_requests
    s_pc,             \* position inside search_with_requests
    s_args,           \* its arguments: query and platform
    attempt,          \* the loop variable of the proxy attempts
    proxy,            \* the proxy of the current attempt
    slept,            \* the jitter slept since the latest request (0: none)
    s_ret,            \* the list search_with_requests returned
    attemptLog,       \* per attempt of the current call: its proxy and outcome
    \* ---- SyncChannelFinder.find_channels_for_user
    f_pc,             \* position inside find_channels_for_user
    f_args,           \* its arguments: username, profile_name, url
    queries,          \* queries
    platform,         \* the platform loop's position in PlatformOrder
    qi,               \* the query loop's position in queries
    ri,               \* the result loop's position in search_results
    search_results,   \* search_results
    best_match,       \* best_match
    results,          \* results
    q_slept,          \* the jitter slept since the latest search (0: none)
    \* ---- observations of one find_channels_for_user call
    accepted,         \* per platform: the computed and the floored score of the accepted match
    nsearch,          \* per platform: the searches issued
    late,             \* a search or scoring happened for a platform after its match
    caught,           \* an exception was raised inside the try of a query
    \* ---- main and process_users_with_real_logic
    m_pc,             \* position inside main / process_users_with_real_logic
    upload,           \* the table main read from uploaded_file in its latest run
    processing,       \* st.session_state.processing
    results_df,       \* st.session_state.results_df
    message,          \* what the latest run of main reported
    b_df,             \* df, the argument of process_users_with_real_logic
    b_i,              \* the row loop's position in df (1-based)
    b_results,        \* results
    b_slept,          \* the jitter slept after the latest row (0: none)
    \* ---- observations of one process_users_with_real_logic call
    b_outcomes,       \* per row: "ok" or "raised", what find_channels_for_user did
    b_calls,          \* the find_channels_for_user calls issued since main's run began
    \* ---- calls of the pure functions (URL filter, name extraction, queries, extraction)
    call,             \* the latest call: function, input, output
    prev              \* the call before it

poolVars == <<proxy_file, load_pc, load_i, proxies, current_index,
              failed_proxies, warned, informed>>
poolObs == <<lastOp, lastRet, marked, hist>>
searchVars == <<s_pc, s_args, attempt, proxy, slept, s_ret, attemptLog>>
findVars == <<f_pc, f_args, queries, platform, qi, ri, search_results, best_match, results,
              q_slept, accepted, nsearch, late, caught>>
batchVars == <<m_pc, upload, processing, results_df, message, b_df, b_i, b_results, b_slept,
               b_outcomes, b_calls>>
callVars == <<call, prev>>
appVars == <<batchVars, callVars>>

-----------------------------------------------------------------------------
\* Bounds of the model.
MaxRows == 3          \* rows in a proxy source, endpoints in a pool

\* The ip and port values a proxy source may hold.
Ips == {1, 2}
Ports == {80, 81}
Rows == [ip : Ips, port : Ports]
\* A row that makes the loop body raise (row['ip'] or row['port'] fails).
BadRow == [bad |-> TRUE]

RECURSIVE SeqsUpTo(_, _)
SeqsUpTo(S, n) ==
    IF n = 0 THEN {<<>>}
    ELSE LET shorter == SeqsUpTo(S, n - 1)
         IN shorter \cup {Append(s, x) : s \in {t \in shorter : Len(t) = n - 1}, x \in S}

Range(s) == {s[i] : i \in 1..Len(s)}

\* The orders random.shuffle can leave a list in.
Shuffles(s) ==
    {t \in [1..Len(s) -> Range(s)] :
        \E f \in [1..Len(s) -> 1..Len(s)] :
            /\ \A i, j \in 1..Len(s) : i # j => f[i] # f[j]
            /\ \A i \in 1..Len(s) : t[i] = s[f[i]]}

-----------------------------------------------------------------------------
\* SyncProxyManager

\* f"http://{row['ip']}:{row['port']}"
ProxyUrl(row) == <<"http://", row.ip, ":", row.port>>

\* The dict built from one row of the source.
MakeProxy(row) == [http |-> ProxyUrl(row), https |-> ProxyUrl(row)]

\* proxy_key = f"{proxy['http']}"
ProxyKey(px) == px.http

Endpoints == {MakeProxy(r) : r \in Rows}

\* The sources a constructor can be given: absent, unreadable (read_csv
\* raises), or a table of rows.
Sources ==
    [exists : BOOLEAN, readable : BOOLEAN, rows : SeqsUpTo(Rows \cup {BadRow}, MaxRows)]

\* No search_with_requests call is in progress.
NoArgs == [query |-> <<>>, platform |-> "none"]
NoProxy == [none |-> TRUE]
SearchIdle ==
    /\ s_pc = "idle"
    /\ s_args = NoArgs
    /\ attempt = 0
    /\ proxy = NoProxy
    /\ slept = 0
    /\ s_ret = <<>>
    /\ attemptLog = <<>>

\* Python's None where a string is expected.
NoneStr == <<"None">>

\* A missing cell as pandas reads it, where a string is expected: the float
\* nan, which is truthy, differs from itself and is printed as 'nan'.
NaN == <<"float('nan')">>

Platforms == {"youtube", "twitch"}

\* best_match = {'score': 0, 'title': None, 'url': None}
NoMatch == [score |-> 0, title |-> NoneStr, url |-> NoneStr]

\* results at the start of find_channels_for_user.
NoChannels ==
    [youtube_url |-> NoneStr, youtube_score |-> 0, twitch_url |-> NoneStr, twitch_score |-> 0]

\* The arguments and observations while no find_channels_for_user call runs.
NoIdentity == [username |-> <<>>, profile_name |-> <<>>, url |-> <<"-">>]

NoAccept == [none |-> TRUE]

\* No find_channels_for_user call is in progress.
FindIdle ==
    /\ f_pc = "idle"
    /\ f_args = NoIdentity
    /\ queries = <<>>
    /\ platform = 1
    /\ qi = 1
    /\ ri = 1
    /\ search_results = <<>>
    /\ best_match = NoMatch
    /\ results = NoChannels
    /\ q_slept = 0
    /\ accepted = [p \in Platforms |-> NoAccept]
    /\ nsearch = [p \in Platforms |-> 0]
    /\ late = FALSE
    /\ caught = FALSE

\* No uploaded table / st.session_state.results_df = None.
NoTable == [columns |-> {}, rows |-> <<>>]
NoResults == <<[none |-> TRUE]>>

\* The session before main's first run.
BatchIdle ==
    /\ m_pc = "idle"
    /\ upload = NoTable
    /\ processing = FALSE
    /\ results_df = NoResults
    /\ message = "none"
    /\ b_df = NoTable
    /\ b_i = 1
    /\ b_results = <<>>
    /\ b_slept = 0
    /\ b_outcomes = <<>>
    /\ b_calls = 0

\* No pure function was called yet.
NoCall == [fn |-> "none", input |-> <<>>, output |-> <<>>]
CallsIdle == call = NoCall /\ prev = NoCall

\* __init__: the fields before load_proxies runs.
InitLoad ==
    /\ proxy_file \in Sources
    /\ load_pc = "start"
    /\ load_i = 0
    /\ proxies = <<>>
    /\ current_index = 0
    /\ failed_proxies = {}
    /\ warned = FALSE
    /\ informed = FALSE
    /\ lastOp = "init"
    /\ lastRet = NoProxy
    /\ marked = {}
    /\ hist = <<>>
    /\ SearchIdle
    /\ FindIdle
    /\ BatchIdle
    /\ CallsIdle

\* The except branch without its reset of the list.
LoadHandlerKeepsRows ==
    /\ warned' = TRUE
    /\ proxies' = proxies
    /\ load_pc' = "done"

\* The except branch of load_proxies: warn and empty the list.
LoadHandler ==
    /\ warned' = TRUE
    /\ proxies' = <<>>
    /\ load_pc' = "done"

\* The statements of load_proxies that the try block encloses.
LoadTryCovers(site) == site \in {"exists", "read_csv", "row", "shuffle"}

\* An exception raised at a statement of load_proxies.
LoadRaise(site) ==
    IF LoadTryCovers(site)
    THEN LoadHandler
    ELSE /\ load_pc' = "raised"
         /\ UNCHANGED <<proxies, warned>>

\* os.path.exists and pd.read_csv.
LoadOpen ==
    /\ load_pc = "start"
    /\ IF ~proxy_file.exists
       THEN /\ load_pc' = "done"
            /\ UNCHANGED <<proxies, warned>>
       ELSE IF ~proxy_file.readable
            THEN LoadRaise("read_csv")
            ELSE /\ load_pc' = "rows"
                 /\ UNCHANGED <<proxies, warned>>
    /\ UNCHANGED <<proxy_file, load_i, current_index, failed_proxies, informed>>
    /\ UNCHANGED <<poolObs, searchVars>>
    /\ UNCHANGED <<findVars, appVars>>

\* One iteration of the loop over proxy_df.iterrows().
LoadRow ==
    /\ load_pc = "rows"
    /\ load_i < Len(proxy_file.rows)
    /\ LET row == proxy_file.rows[load_i + 1]
       IN IF row = BadRow
          THEN LoadRaise("row") /\ UNCHANGED load_i
          ELSE /\ proxies' = Append(proxies, MakeProxy(row))
               /\ load_i' = load_i + 1
               /\ UNCHANGED <<load_pc, warned>>
    /\ UNCHANGED <<proxy_file, current_index, failed_proxies, informed>>
    /\ UNCHANGED <<poolObs, searchVars>>
    /\ UNCHANGED <<findVars, appVars>>

\* After the loop: random.shuffle and the "Loaded" message.
LoadShuffle ==
    /\ load_pc = "rows"
    /\ load_i = Len(proxy_file.rows)
    /\ proxies' \in Shuffles(proxies)
    /\ informed' = TRUE
    /\ load_pc' = "done"
    /\ UNCHANGED <<proxy_file, load_i, current_index, failed_proxies, warned>>
    /\ UNCHANGED <<poolObs, searchVars>>
    /\ UNCHANGED <<findVars, appVars>>

load_proxies == LoadOpen \/ LoadRow \/ LoadShuffle

\* The loop with the rotation index left where it was.
RECURSIVE GetNextLoopNoAdvance(_, _, _, _)
GetNextLoopNoAdvance(prx, idx, failed, attempts) ==
    IF attempts < Len(prx)
    THEN LET px == prx[idx + 1]
         IN IF ProxyKey(px) \notin failed
            THEN [ret |-> px, index |-> idx, iters |-> attempts + 1]
            ELSE GetNextLoopNoAdvance(prx, idx, failed, attempts + 1)
    ELSE [ret |-> NoProxy, index |-> idx, iters |-> attempts]

\* The loop giving up one iteration early.
RECURSIVE GetNextLoopShort(_, _, _, _)
GetNextLoopShort(prx, idx, failed, attempts) ==
    IF attempts < Len(prx) - 1
    THEN LET px == prx[idx + 1]
             nxt == (idx + 1) % Len(prx)
         IN IF ProxyKey(px) \notin failed
            THEN [ret |-> px, index |-> nxt, iters |-> attempts + 1]
            ELSE GetNextLoopShort(prx, nxt, failed, attempts + 1)
    ELSE [ret |-> NoProxy, index |-> idx, iters |-> attempts]

\* The while loop of get_next_proxy; attempts counts its iterations.
RECURSIVE GetNextLoop(_, _, _, _)
GetNextLoop(prx, idx, failed, attempts) ==
    IF attempts < Len(prx)
    THEN LET px == prx[idx + 1]
             nxt == (idx + 1) % Len(prx)
         IN IF ProxyKey(px) \notin failed
            THEN [ret |-> px, index |-> nxt, iters |-> attempts + 1]
            ELSE GetNextLoop(prx, nxt, failed, attempts + 1)
    ELSE [ret |-> NoProxy, index |-> idx, iters |-> attempts]

\* get_next_proxy: what it returns and where it leaves current_index.
get_next_proxy(prx, idx, failed) ==
    IF prx = <<>>
    THEN [ret |-> NoProxy, index |-> idx, iters |-> 0]
    ELSE GetNextLoop(prx, idx, failed, 0)

\* mark_proxy_failed giving a proxy marked a second time another chance.
mark_proxy_failed_toggles(failed, px) ==
    IF px = NoProxy THEN failed
    ELSE IF ProxyKey(px) \in failed THEN failed \ {ProxyKey(px)}
    ELSE failed \cup {ProxyKey(px)}

\* mark_proxy_failed overwriting the failure set with the one key.
mark_proxy_failed_overwrites(failed, px) ==
    IF px # NoProxy THEN {ProxyKey(px)} ELSE failed

\* mark_proxy_failed: the failure set afterwards.
mark_proxy_failed(failed, px) ==
    IF px # NoProxy THEN failed \cup {ProxyKey(px)} ELSE failed

\* The window of the latest Len(proxies) returns.
Remember(h, r, n) ==
    LET h2 == Append(h, r)
    IN IF Len(h2) > n THEN SubSeq(h2, Len(h2) - n + 1, Len(h2)) ELSE h2

\* A caller calls get_next_proxy().
CallGetNext ==
    /\ load_pc = "done"
    /\ LET r == get_next_proxy(proxies, current_index, failed_proxies)
       IN /\ current_index' = r.index
          /\ lastRet' = r.ret
          /\ hist' = Remember(hist, r.ret, Len(proxies))
    /\ lastOp' = "get"
    /\ UNCHANGED <<proxy_file, load_pc, load_i, proxies, failed_proxies, warned, informed>>
    /\ UNCHANGED <<marked, searchVars>>
    /\ UNCHANGED <<findVars, appVars>>

\* A caller calls mark_proxy_failed(p), p a proxy or None.
CallMarkFailed ==
    /\ load_pc = "done"
    /\ \E p \in Endpoints \cup {NoProxy} :
        /\ failed_proxies' = mark_proxy_failed(failed_proxies, p)
        /\ marked' = IF p # NoProxy THEN marked \cup {ProxyKey(p)} ELSE marked
    /\ lastOp' = "mark"
    /\ UNCHANGED <<proxy_file, load_pc, load_i, proxies, current_index, warned, informed>>
    /\ UNCHANGED <<lastRet, hist, searchVars>>
    /\ UNCHANGED <<findVars, appVars>>

vars == <<poolVars, poolObs, searchVars, findVars, appVars>>

\* The row a proxy was built from.
RowOf(px) == CHOOSE r \in Rows : MakeProxy(r) = px

\* The pool as the constructor leaves it: load_proxies has run on a readable
\* source and left any list of up to MaxRows endpoints, in any order.
InitLoaded ==
    /\ proxies \in SeqsUpTo(Endpoints, MaxRows)
    /\ proxy_file = [exists |-> TRUE, readable |-> TRUE,
                     rows |-> [i \in 1..Len(proxies) |-> RowOf(proxies[i])]]
    /\ load_pc = "done"
    /\ load_i = Len(proxies)
    /\ current_index = 0
    /\ failed_proxies = {}
    /\ warned = FALSE
    /\ informed = TRUE
    /\ lastOp = "init"
    /\ lastRet = NoProxy
    /\ marked = {}
    /\ hist = <<>>
    /\ SearchIdle
    /\ FindIdle
    /\ BatchIdle
    /\ CallsIdle

\* The constructor: load_proxies on any source.
SpecLoad == InitLoad /\ [][load_proxies]_vars

\* The constructed pool under any sequence of calls.
NextPool == CallGetNext \/ CallMarkFailed
SpecPool == InitLoaded /\ [][NextPool]_vars

-----------------------------------------------------------------------------
\* Text: str operations on token sequences.

\* Python truthiness of an optional string.
Truthy(t) == t # NoneStr /\ t # <<>>

Min(a, b) == IF a < b THEN a ELSE b

\* s.startswith(pat)
StartsWith(s, pat) == Len(s) >= Len(pat) /\ SubSeq(s, 1, Len(pat)) = pat

\* s.find(pat) + 1: the first position of pat in s, 0 if there is none.
Find(s, pat) ==
    LET hits == {i \in 1..(Len(s) - Len(pat) + 1) : SubSeq(s, i, i + Len(pat) - 1) = pat}
    IN IF hits = {} THEN 0 ELSE CHOOSE i \in hits : \A j \in hits : i <= j

\* pat in s
Contains(s, pat) == Find(s, pat) # 0

\* s.split(sep)
RECURSIVE Split(_, _)
Split(s, sep) ==
    LET i == Find(s, sep)
    IN IF i = 0 THEN <<s>>
       ELSE <<SubSeq(s, 1, i - 1)>> \o Split(SubSeq(s, i + Len(sep), Len(s)), sep)

\* urllib.parse.unquote of one token.
UnquoteToken(t) ==
    CASE t = "%3A" -> ":"
      [] t = "%2F" -> "/"
      [] t = "%40" -> "@"
      [] OTHER -> t

\* urllib.parse.unquote
Unquote(s) == [i \in 1..Len(s) |-> UnquoteToken(s[i])]

\* The Google redirect prefix '/url?q='.
RedirectPrefix == <<"/", "url", "?", "q=">>

\* unquote(href.split('/url?q=')[1].split('&')[0]) for an href that starts
\* with '/url?q=', the href itself otherwise.
CleanRedirect(href) ==
    IF StartsWith(href, RedirectPrefix)
    THEN Unquote(Split(Split(href, RedirectPrefix)[2], <<"&">>)[1])
    ELSE href

-----------------------------------------------------------------------------
\* SyncSearchEngine.search_with_requests

max_proxy_attempts == 3
max_results == 5

\* 'youtube.com' in url / 'twitch.tv' in url
PlatformDomain(plat) ==
    IF plat = "youtube" THEN <<"youtube.com">> ELSE <<"twitch.tv">>

\* Candidate hrefs of a result page.
YT_CHANNEL == <<"https", ":", "/", "/", "www.", "youtube.com", "/", "@", "alice">>
YT_WATCH == <<"https", ":", "/", "/", "www.", "youtube.com", "/", "watch", "?", "v=1">>
TW_CHANNEL == <<"https", ":", "/", "/", "twitch.tv", "/", "alice">>
TW_BARE == <<"https", ":", "/", "/", "twitch.tv">>
WRAPPED_YT == <<"/", "url", "?", "q=", "https", "%3A", "%2F", "%2F", "www.", "youtube.com",
                "%2F", "%40", "alice", "&", "sa=U">>

Hrefs == {YT_CHANNEL, YT_WATCH, TW_CHANNEL, TW_BARE, WRAPPED_YT}

\* Visible texts of three and of five characters.
Texts == {<<"a", "b", "c">>, <<"A", "l", "i", "c", "e">>}

\* A result container as the title and link selectors see it: the title
\* element's text (NoneStr: no title element) and the link element's href
\* (NoneStr: no link element).
Containers == [title : {NoneStr, <<"A", "l", "i", "c", "e">>}, href : Hrefs \cup {NoneStr}]

\* An anchor of the document: soup.find_all('a', href=True).
Anchors == [href : Hrefs, text : Texts]

\* The non-channel YouTube paths the direct extraction leaves out.
NonChannelPaths == {<<"/", "watch", "?">>, <<"/", "shorts", "/">>, <<"/", "playlist", "?">>}

\* The loop over all_links of the direct link extraction.
RECURSIVE DirectLinks(_, _)
DirectLinks(links, plat) ==
    IF links = <<>> THEN <<>>
    ELSE LET link == Head(links)
             href == link.href
             text == link.text
             skip == /\ plat = "youtube"
                     /\ Contains(href, PlatformDomain(plat))
                     /\ \E path \in NonChannelPaths : Contains(href, path)
             is_platform_url == ~skip /\ Contains(href, PlatformDomain(plat))
             rest == DirectLinks(Tail(links), plat)
         IN IF is_platform_url /\ text # <<>> /\ Len(text) > 3
            THEN <<[title |-> SubSeq(text, 1, Min(100, Len(text))),
                    url |-> CleanRedirect(href),
                    snippet |-> <<>>]>> \o rest
            ELSE rest

\* The loop over search_divs[:max_results * 2]; results is the list so far.
RECURSIVE Structured(_, _, _)
Structured(divs, plat, found) ==
    IF divs = <<>> \/ Len(found) >= max_results THEN found
    ELSE LET div == Head(divs)
             both == div.title # NoneStr /\ div.href # NoneStr
             is_platform_url == both /\ Contains(div.href, PlatformDomain(plat))
         IN Structured(Tail(divs), plat,
                IF is_platform_url
                THEN Append(found, [title |-> div.title,
                                      url |-> CleanRedirect(div.href),
                                      snippet |-> <<>>])
                ELSE found)

\* A status-200 page without the bot-detection phrase: the elements of the
\* first container selector that matches anything (none: no selector
\* matched) and the anchors of the document.
MaxDivs == 2
MaxLinks == 1
Pages == [search_divs : SeqsUpTo(Containers, MaxDivs), all_links : SeqsUpTo(Anchors, MaxLinks)]

\* The extraction of the results from a page.
Extract(page, plat) ==
    IF page.search_divs = <<>>
    THEN LET platform_links == DirectLinks(page.all_links, plat)
         IN SubSeq(platform_links, 1, Min(max_results, Len(platform_links)))
    ELSE Structured(SubSeq(page.search_divs, 1, Min(max_results * 2, Len(page.search_divs))),
                    plat, <<>>)

\* The lists a status-200 page without the phrase can yield, by platform.
YoutubeLists == {Extract(page, "youtube") : page \in Pages}
TwitchLists == {Extract(page, "twitch") : page \in Pages}
ExtractedLists(plat) == IF plat = "youtube" THEN YoutubeLists ELSE TwitchLists

\* The statements of one attempt that the try block encloses.
SearchTryCoversRequestOnly(site) == site \in {"request"}
SearchTryCovers(site) == site \in {"build_url", "request", "parse"}

\* search_with_requests has returned: no call is in progress.
SearchReset ==
    /\ s_pc' = "idle"
    /\ s_args' = NoArgs
    /\ attempt' = 0
    /\ proxy' = NoProxy
    /\ slept' = 0
    /\ s_ret' = <<>>
    /\ attemptLog' = <<>>

\* search_with_requests is entered.
SearchBegin(query, plat) ==
    /\ s_pc' = "loop"
    /\ s_args' = [query |-> query, platform |-> plat]
    /\ attempt' = 0
    /\ proxy' = NoProxy
    /\ slept' = 0
    /\ s_ret' = <<>>
    /\ attemptLog' = <<>>

\* The attempt's outcome as its callers can observe it.
Logged(outcome) == Append(attemptLog, [proxy |-> proxy, outcome |-> outcome])

\* if proxy: self.proxy_manager.mark_proxy_failed(proxy)
MarkUsedProxy ==
    /\ failed_proxies' = mark_proxy_failed(failed_proxies, proxy)
    /\ marked' = IF proxy # NoProxy THEN marked \cup {ProxyKey(proxy)} ELSE marked
    /\ lastOp' = IF proxy # NoProxy THEN "mark" ELSE lastOp

\* An attempt starts: proxy = self.proxy_manager.get_next_proxy().
SearchNextAttempt ==
    /\ s_pc = "loop"
    /\ attempt < max_proxy_attempts
    /\ LET r == get_next_proxy(proxies, current_index, failed_proxies)
       IN /\ current_index' = r.index
          /\ proxy' = r.ret
          /\ lastRet' = r.ret
          /\ hist' = Remember(hist, r.ret, Len(proxies))
    /\ lastOp' = "get"
    /\ s_pc' = "sleep"
    /\ UNCHANGED <<proxy_file, load_pc, load_i, proxies, failed_proxies, warned, informed>>
    /\ UNCHANGED <<marked, s_args, attempt, slept, s_ret, attemptLog>>
    /\ UNCHANGED <<findVars, appVars>>

\* The attempt without its time.sleep(random.uniform(1, 3)).
SearchSleepSkipped ==
    /\ s_pc = "sleep"
    /\ s_pc' = "request"
    /\ UNCHANGED <<poolVars, poolObs>>
    /\ UNCHANGED <<s_args, attempt, proxy, slept, s_ret, attemptLog>>
    /\ UNCHANGED <<findVars, appVars>>

\* time.sleep(random.uniform(1, 3))
SearchSleep ==
    /\ s_pc = "sleep"
    /\ slept' \in 1..3
    /\ s_pc' = "request"
    /\ UNCHANGED <<poolVars, poolObs>>
    /\ UNCHANGED <<s_args, attempt, proxy, s_ret, attemptLog>>
    /\ UNCHANGED <<findVars, appVars>>

\* An exception raised at a statement of the attempt.
SearchRaise(site) ==
    s_pc' = IF SearchTryCovers(site) THEN "except" ELSE "raised"

\* self.session.get raises (connection error, timeout, retries exhausted).
SearchGetRaises ==
    /\ s_pc = "request"
    /\ SearchRaise("request")
    /\ attemptLog' = Logged("exception")
    /\ slept' = 0
    /\ UNCHANGED <<poolVars, poolObs>>
    /\ UNCHANGED <<s_args, attempt, proxy, s_ret>>
    /\ UNCHANGED <<findVars, appVars>>

\* The response's status is not 200, the attempt retried without being
\* counted.
SearchBadStatusNotCounted ==
    /\ s_pc = "request"
    /\ MarkUsedProxy
    /\ attemptLog' = Logged("bad_status")
    /\ slept' = 0
    /\ s_pc' = "loop"
    /\ UNCHANGED <<proxy_file, load_pc, load_i, proxies, current_index, warned, informed>>
    /\ UNCHANGED <<lastRet, hist, s_args, attempt, proxy, s_ret>>
    /\ UNCHANGED <<findVars, appVars>>

\* The response's status is not 200: mark the proxy, next attempt.
SearchBadStatus ==
    /\ s_pc = "request"
    /\ MarkUsedProxy
    /\ attemptLog' = Logged("bad_status")
    /\ attempt' = attempt + 1
    /\ slept' = 0
    /\ s_pc' = "loop"
    /\ UNCHANGED <<proxy_file, load_pc, load_i, proxies, current_index, warned, informed>>
    /\ UNCHANGED <<lastRet, hist, s_args, proxy, s_ret>>
    /\ UNCHANGED <<findVars, appVars>>

\* Status 200 with the bot-detection phrase, the proxy left unmarked.
SearchBotPageNoMark ==
    /\ s_pc = "request"
    /\ attemptLog' = Logged("bot")
    /\ attempt' = attempt + 1
    /\ slept' = 0
    /\ s_pc' = "loop"
    /\ UNCHANGED <<poolVars, poolObs>>
    /\ UNCHANGED <<s_args, proxy, s_ret>>
    /\ UNCHANGED <<findVars, appVars>>

\* Status 200 with the bot-detection phrase: mark the proxy, continue.
SearchBotPage ==
    /\ s_pc = "request"
    /\ MarkUsedProxy
    /\ attemptLog' = Logged("bot")
    /\ attempt' = attempt + 1
    /\ slept' = 0
    /\ s_pc' = "loop"
    /\ UNCHANGED <<proxy_file, load_pc, load_i, proxies, current_index, warned, informed>>
    /\ UNCHANGED <<lastRet, hist, s_args, proxy, s_ret>>
    /\ UNCHANGED <<findVars, appVars>>

\* Status 200 and parsing or extraction raises.
SearchParseRaises ==
    /\ s_pc = "request"
    /\ SearchRaise("parse")
    /\ attemptLog' = Logged("parse_error")
    /\ slept' = 0
    /\ UNCHANGED <<poolVars, poolObs>>
    /\ UNCHANGED <<s_args, attempt, proxy, s_ret>>
    /\ UNCHANGED <<findVars, appVars>>

\* Status 200 without the phrase, an empty extraction going on to the next
\* attempt instead of returning.
SearchPageRetriesEmpty ==
    /\ s_pc = "request"
    /\ \E found \in ExtractedLists(s_args.platform) :
          /\ s_ret' = found
          /\ s_pc' = IF found = <<>> THEN "loop" ELSE "returned"
          /\ attempt' = IF found = <<>> THEN attempt + 1 ELSE attempt
    /\ attemptLog' = Logged("ok")
    /\ slept' = 0
    /\ UNCHANGED <<poolVars, poolObs>>
    /\ UNCHANGED <<s_args, proxy>>
    /\ UNCHANGED <<findVars, appVars>>

\* Status 200 without the phrase: extract and return, results or not.
SearchPage ==
    /\ s_pc = "request"
    /\ s_ret' \in ExtractedLists(s_args.platform)
    /\ attemptLog' = Logged("ok")
    /\ slept' = 0
    /\ s_pc' = "returned"
    /\ UNCHANGED <<poolVars, poolObs>>
    /\ UNCHANGED <<s_args, attempt, proxy>>
    /\ UNCHANGED <<findVars, appVars>>

\* The except branch without its mark_proxy_failed.
SearchExceptNoMark ==
    /\ s_pc = "except"
    /\ attempt' = attempt + 1
    /\ s_pc' = "loop"
    /\ UNCHANGED <<poolVars, poolObs>>
    /\ UNCHANGED <<s_args, proxy, slept, s_ret, attemptLog>>
    /\ UNCHANGED <<findVars, appVars>>

\* The except branch: mark the proxy, time.sleep(2), next attempt.
SearchExcept ==
    /\ s_pc = "except"
    /\ MarkUsedProxy
    /\ attempt' = attempt + 1
    /\ s_pc' = "loop"
    /\ UNCHANGED <<proxy_file, load_pc, load_i, proxies, current_index, warned, informed>>
    /\ UNCHANGED <<lastRet, hist, s_args, proxy, slept, s_ret, attemptLog>>
    /\ UNCHANGED <<findVars, appVars>>

\* All attempts used up: return [].
SearchExhausted ==
    /\ s_pc = "loop"
    /\ attempt >= max_proxy_attempts
    /\ s_ret' = <<>>
    /\ s_pc' = "returned"
    /\ UNCHANGED <<poolVars, poolObs>>
    /\ UNCHANGED <<s_args, attempt, proxy, slept, attemptLog>>
    /\ UNCHANGED <<findVars, appVars>>

search_with_requests ==
    \/ SearchNextAttempt
    \/ SearchSleep
    \/ SearchGetRaises
    \/ SearchBadStatus
    \/ SearchBotPage
    \/ SearchParseRaises
    \/ SearchPage
    \/ SearchExcept
    \/ SearchExhausted

\* The queries a caller passes.
SomeQueries == {<<"\"", "alice", "\"">>, <<"alice", " ", "Alice W">>}

\* A caller calls search_with_requests(query, platform).
CallSearch ==
    /\ load_pc = "done"
    /\ s_pc = "idle"
    /\ \E query \in SomeQueries, plat \in Platforms : SearchBegin(query, plat)
    /\ UNCHANGED <<poolVars, poolObs>>
    /\ UNCHANGED <<findVars, appVars>>

\* The caller receives the list; the call's locals are gone.
SearchReturns ==
    /\ s_pc = "returned"
    /\ SearchReset
    /\ UNCHANGED <<poolVars, poolObs>>
    /\ UNCHANGED <<findVars, appVars>>

\* The pools the search engine is checked with: up to MaxPool endpoints
\* that differ in their ip.
MaxPool == 2
InitSearch ==
    /\ InitLoaded
    /\ Len(proxies) <= MaxPool
    /\ \A i \in 1..Len(proxies) : RowOf(proxies[i]).port = 80

\* The search engine on a constructed pool, called again and again.
NextSearch == CallSearch \/ search_with_requests \/ SearchReturns
SpecSearch == InitSearch /\ [][NextSearch]_vars

-----------------------------------------------------------------------------
\* SyncURLFilter

\* valid_patterns = ['/channel/', '/c/', '/@', '/user/']
valid_patterns == {<<"/", "channel", "/">>, <<"/", "c", "/">>, <<"/", "@">>, <<"/", "user", "/">>}

\* url.split('/url?q=')[1].split('&')[0] for a url that starts with '/url?q='.
StripRedirect(url) ==
    IF StartsWith(url, RedirectPrefix)
    THEN Split(Split(url, RedirectPrefix)[2], <<"&">>)[1]
    ELSE url

filter_youtube_url(url) ==
    IF ~Truthy(url) THEN NoneStr
    ELSE LET u == StripRedirect(url)
         IN IF Contains(u, <<"youtube.com">>) /\ \E pattern \in valid_patterns : Contains(u, pattern)
            THEN u
            ELSE NoneStr

filter_twitch_url(url) ==
    IF ~Truthy(url) THEN NoneStr
    ELSE LET u == StripRedirect(url)
         IN IF Contains(u, <<"twitch.tv">>) /\ Len(Split(u, <<"/">>)) >= 4
            THEN u
            ELSE NoneStr

-----------------------------------------------------------------------------
\* SyncChannelFinder

\* str.strip() on tokens: blanks at either end are dropped.
RECURSIVE Strip(_)
Strip(t) ==
    IF t = <<>> THEN t
    ELSE IF Head(t) = " " THEN Strip(Tail(t))
    ELSE IF t[Len(t)] = " " THEN Strip(SubSeq(t, 1, Len(t) - 1))
    ELSE t

\* s.replace(tok, '')
RECURSIVE Remove(_, _)
Remove(t, tok) ==
    IF t = <<>> THEN t
    ELSE IF Head(t) = tok THEN Remove(Tail(t), tok)
    ELSE <<Head(t)>> \o Remove(Tail(t), tok)

\* The paths of x.com that are not usernames.
ReservedPaths ==
    {<<w>> : w \in {"home", "explore", "notifications", "messages", "bookmarks", "lists",
                    "profile", "more", "compose", "search", "settings", "help"}}

\* username_part / path with its query parameters and '@' removed.
CleanSegment(seg) ==
    Remove(IF Contains(seg, <<"?">>) THEN Split(seg, <<"?">>)[1] ELSE seg, "@")

\* The loop over enumerate(parts) of extract_name_from_url, from index i
\* (1-based) on; NoneStr when the loop ends without a return.
RECURSIVE ScanParts(_, _)
ScanParts(parts, i) ==
    IF i > Len(parts) THEN NoneStr
    ELSE IF parts[i] \in {<<"x.com">>, <<"twitter.com">>} /\ i + 1 <= Len(parts)
            /\ CleanSegment(parts[i + 1]) \notin ReservedPaths
         THEN Strip(CleanSegment(parts[i + 1]))
         ELSE ScanParts(parts, i + 1)

\* A float argument makes 'x.com' in url raise TypeError, which the except
\* branch turns into "".
extract_name_from_url(url) ==
    IF url = NaN THEN <<>>
    ELSE IF Contains(url, <<"x.com">>) \/ Contains(url, <<"twitter.com">>)
    THEN LET found == ScanParts(Split(url, <<"/">>), 1)
         IN IF found = NoneStr THEN <<>> ELSE found
    ELSE LET parts == Split(url, <<"/">>)
             path == IF Contains(url, <<"/">>) THEN parts[Len(parts)] ELSE url
         IN Strip(CleanSegment(path))

\* The double quote of f'"{username}"'.
Q == "\""

\* queries = [q for q in queries if q.strip() != '""' and q.strip()]
RECURSIVE KeepQueries(_)
KeepQueries(qs) ==
    IF qs = <<>> THEN <<>>
    ELSE LET q == Head(qs)
         IN (IF Strip(q) # <<Q, Q>> /\ Strip(q) # <<>> THEN <<q>> ELSE <<>>)
            \o KeepQueries(Tail(qs))

\* f'{value}'
Fmt(value) == IF value = NaN THEN <<"nan">> ELSE value

\* a != b
NotEqual(a, b) == a # b \/ a = NaN

\* The queries of one identity without queries = queries[:3].
BuildQueriesUncapped(username, profile_name, url) ==
    LET q1 == IF username # <<>> THEN <<<<Q>> \o Fmt(username) \o <<Q>>>> ELSE <<>>
        q2 == IF profile_name # <<>> /\ NotEqual(profile_name, username)
              THEN <<<<Q>> \o Fmt(profile_name) \o <<Q>>>> ELSE <<>>
        q3 == IF username # <<>> /\ profile_name # <<>>
              THEN <<Fmt(username) \o <<" ">> \o Fmt(profile_name)>> ELSE <<>>
        url_extracted_name == IF url # <<>> THEN extract_name_from_url(url) ELSE <<>>
        q4 == IF url # <<>> /\ url_extracted_name # <<>>
                 /\ url_extracted_name \notin {username, profile_name}
              THEN <<<<Q>> \o url_extracted_name \o <<Q>>>> ELSE <<>>
        all == KeepQueries(q1 \o q2 \o q3 \o q4)
    IN all

\* The search queries of find_channels_for_user.
BuildQueries(username, profile_name, url) ==
    LET q1 == IF username # <<>> THEN <<<<Q>> \o Fmt(username) \o <<Q>>>> ELSE <<>>
        q2 == IF profile_name # <<>> /\ NotEqual(profile_name, username)
              THEN <<<<Q>> \o Fmt(profile_name) \o <<Q>>>> ELSE <<>>
        q3 == IF username # <<>> /\ profile_name # <<>>
              THEN <<Fmt(username) \o <<" ">> \o Fmt(profile_name)>> ELSE <<>>
        url_extracted_name == IF url # <<>> THEN extract_name_from_url(url) ELSE <<>>
        q4 == IF url # <<>> /\ url_extracted_name # <<>>
                 /\ url_extracted_name \notin {username, profile_name}
              THEN <<<<Q>> \o url_extracted_name \o <<Q>>>> ELSE <<>>
        all == KeepQueries(q1 \o q2 \o q3 \o q4)
    IN SubSeq(all, 1, Min(3, Len(all)))

PlatformOrder == <<"youtube", "twitch">>

\* if match_score < 50: match_score = 50, left out.
MinimumScoreMissing(match_score) == match_score

\* if match_score < 50: match_score = 50
MinimumScore(match_score) == IF match_score < 50 THEN 50 ELSE match_score

\* best_match['score'] > 50 in place of >= 50.
GoodMatchStrict(best) == best.score > 50

\* best_match['score'] >= 50
GoodMatch(best) == best.score >= 50

\* Store best match, the twitch branch writing the youtube url.
StoreBestWrongKey(res, plat, best) ==
    IF ~GoodMatch(best) THEN res
    ELSE IF plat = "youtube"
         THEN [res EXCEPT !.youtube_url = best.url, !.youtube_score = best.score]
         ELSE [res EXCEPT !.youtube_url = best.url, !.twitch_score = best.score]

\* Store best match.
StoreBest(res, plat, best) ==
    IF ~GoodMatch(best) THEN res
    ELSE IF plat = "youtube"
         THEN [res EXCEPT !.youtube_url = best.url, !.youtube_score = best.score]
         ELSE [res EXCEPT !.twitch_url = best.url, !.twitch_score = best.score]

\* The filter of the platform.
FilterUrl(plat, url) ==
    IF plat = "youtube" THEN filter_youtube_url(url) ELSE filter_twitch_url(url)

\* The statements of one query that the try block encloses.
FindTryCovers(site) == site \in {"search", "filter", "match", "score"}

\* What calculate_match_score may return.
Scores == {49, 80}

\* The identities find_channels_for_user is called with.
Usernames == {<<>>, <<"alice">>}
ProfileNames == {<<>>, <<"alice">>, <<"Alice", " ", "W">>}
ProfileUrls == {<<>>,
                <<"https", ":", "/", "/", "x.com", "/", "alicew">>,
                <<"https", ":", "/", "/", "x.com", "/", "settings">>}
Identities == [username : Usernames, profile_name : ProfileNames, url : ProfileUrls]
\* find_channels_for_user has returned.
FindReset ==
    /\ f_pc' = "idle"
    /\ f_args' = NoIdentity
    /\ queries' = <<>>
    /\ platform' = 1
    /\ qi' = 1
    /\ ri' = 1
    /\ search_results' = <<>>
    /\ best_match' = NoMatch
    /\ results' = NoChannels
    /\ q_slept' = 0
    /\ accepted' = [p \in Platforms |-> NoAccept]
    /\ nsearch' = [p \in Platforms |-> 0]
    /\ late' = FALSE
    /\ caught' = FALSE

Plat == PlatformOrder[platform]

\* find_channels_for_user is entered: results, queries, the first platform.
FindBegin(id) ==
    /\ f_pc' = "query"
    /\ f_args' = id
    /\ queries' = BuildQueries(id.username, id.profile_name, id.url)
    /\ platform' = 1
    /\ qi' = 1
    /\ ri' = 1
    /\ search_results' = <<>>
    /\ best_match' = NoMatch
    /\ results' = NoChannels
    /\ q_slept' = 0
    /\ accepted' = [p \in Platforms |-> NoAccept]
    /\ nsearch' = [p \in Platforms |-> 0]
    /\ late' = FALSE
    /\ caught' = FALSE

\* A search or a scoring done for a platform that already has its match.
Late == late \/ accepted[Plat] # NoAccept

\* for query in queries: search_results = search_with_requests(query, platform)
FindNextQuery ==
    /\ f_pc = "query"
    /\ qi <= Len(queries)
    /\ s_pc = "idle"
    /\ SearchBegin(queries[qi], Plat)
    /\ f_pc' = "searching"
    /\ nsearch' = [nsearch EXCEPT ![Plat] = @ + 1]
    /\ late' = Late
    /\ q_slept' = 0
    /\ UNCHANGED <<appVars, poolVars, poolObs>>
    /\ UNCHANGED <<f_args, queries, platform, qi, ri, search_results, best_match, results,
                   accepted, caught>>

\* The search returned: if search_results: ... else on to line 477.
FindTakeResults ==
    /\ f_pc = "searching"
    /\ s_pc = "returned"
    /\ search_results' = s_ret
    /\ ri' = 1
    /\ f_pc' = IF s_ret # <<>> THEN "scan" ELSE "sleep"
    /\ SearchReset
    /\ UNCHANGED <<appVars, poolVars, poolObs>>
    /\ UNCHANGED <<f_args, queries, platform, qi, best_match, results, q_slept,
                   accepted, nsearch, late, caught>>

\* clean_url of the result under the loop.
CleanUrl == FilterUrl(Plat, search_results[ri].url)

\* The results loop moves on; at its end, the check of line 469.
ResultsLoopNext ==
    /\ ri' = ri + 1
    /\ f_pc' = IF ri + 1 <= Len(search_results) THEN "scan"
               ELSE IF GoodMatch(best_match) THEN "store" ELSE "sleep"

\* A result the filter rejects or the matcher does not accept: continue.
FindSkipResult ==
    /\ f_pc = "scan"
    /\ ri <= Len(search_results)
    /\ ResultsLoopNext
    /\ late' = Late
    /\ UNCHANGED <<appVars, poolVars, poolObs, searchVars>>
    /\ UNCHANGED <<f_args, queries, platform, qi, search_results, best_match, results,
                   q_slept, accepted, nsearch, caught>>

\* enhanced_name_match accepts the result: score it, floor the score, set
\* best_match and leave both loops (break, and the break of line 470).
FindAcceptResult ==
    /\ f_pc = "scan"
    /\ ri <= Len(search_results)
    /\ Truthy(CleanUrl)
    /\ \E computed \in Scores :
        LET match_score == MinimumScore(computed)
            best == [score |-> match_score, title |-> search_results[ri].title, url |-> CleanUrl]
        IN /\ best_match' = best
           /\ accepted' = [accepted EXCEPT ![Plat] = [computed |-> computed, score |-> match_score]]
           /\ f_pc' = IF GoodMatch(best) THEN "store" ELSE "sleep"
    /\ late' = Late
    /\ UNCHANGED <<appVars, poolVars, poolObs, searchVars>>
    /\ UNCHANGED <<f_args, queries, platform, qi, ri, search_results, results, q_slept,
                   nsearch, caught>>

\* An exception raised at a statement of one query.
FindRaise(site) ==
    f_pc' = IF FindTryCovers(site) THEN "except" ELSE "raised"

\* enhanced_name_match or calculate_match_score raises on a filtered result.
FindScoringRaises ==
    /\ f_pc = "scan"
    /\ ri <= Len(search_results)
    /\ Truthy(CleanUrl)
    /\ \E site \in {"match", "score"} : FindRaise(site)
    /\ caught' = TRUE
    /\ late' = Late
    /\ UNCHANGED <<appVars, poolVars, poolObs, searchVars>>
    /\ UNCHANGED <<f_args, queries, platform, qi, ri, search_results, best_match, results,
                   q_slept, accepted, nsearch>>

\* The except branch ending the query loop (break).
FindExceptBreaks ==
    /\ f_pc = "except"
    /\ f_pc' = "store"
    /\ UNCHANGED <<appVars, poolVars, poolObs, searchVars>>
    /\ UNCHANGED <<f_args, queries, platform, qi, ri, search_results, best_match, results,
                   q_slept, accepted, nsearch, late, caught>>

\* The except branch: log and continue with the next query.
FindExcept ==
    /\ f_pc = "except"
    /\ qi' = qi + 1
    /\ f_pc' = "query"
    /\ UNCHANGED <<appVars, poolVars, poolObs, searchVars>>
    /\ UNCHANGED <<f_args, queries, platform, ri, search_results, best_match, results,
                   q_slept, accepted, nsearch, late, caught>>

\* Rate limiting between queries: time.sleep(random.uniform(2, 4)).
FindSleep ==
    /\ f_pc = "sleep"
    /\ q_slept' \in 2..4
    /\ qi' = qi + 1
    /\ f_pc' = "query"
    /\ UNCHANGED <<appVars, poolVars, poolObs, searchVars>>
    /\ UNCHANGED <<f_args, queries, platform, ri, search_results, best_match, results,
                   accepted, nsearch, late, caught>>

\* The query loop ran out of queries.
FindQueriesDone ==
    /\ f_pc = "query"
    /\ qi > Len(queries)
    /\ f_pc' = "store"
    /\ UNCHANGED <<appVars, poolVars, poolObs, searchVars>>
    /\ UNCHANGED <<f_args, queries, platform, qi, ri, search_results, best_match, results,
                   q_slept, accepted, nsearch, late, caught>>

\* Store best match; then the next platform, or return results.
FindStore ==
    /\ f_pc = "store"
    /\ results' = StoreBest(results, Plat, best_match)
    /\ IF platform < Len(PlatformOrder)
       THEN /\ platform' = platform + 1
            /\ best_match' = NoMatch
            /\ qi' = 1
            /\ q_slept' = 0
            /\ f_pc' = "query"
       ELSE /\ f_pc' = "done"
            /\ UNCHANGED <<platform, best_match, qi, q_slept>>
    /\ UNCHANGED <<appVars, poolVars, poolObs, searchVars>>
    /\ UNCHANGED <<f_args, queries, ri, search_results, accepted, nsearch, late, caught>>

find_channels_for_user ==
    \/ FindNextQuery
    \/ FindTakeResults
    \/ FindSkipResult
    \/ FindAcceptResult
    \/ FindScoringRaises
    \/ FindExcept
    \/ FindSleep
    \/ FindQueriesDone
    \/ FindStore

\* The callers' identities: with no, one and two queries, and with four
\* candidate queries of which the first three are kept.
FindIdentities ==
    {id \in Identities :
        \/ id.username = <<>> /\ id.profile_name = <<>> /\ id.url # <<>>
        \/ id.username # <<>> /\ id.profile_name = id.username /\ id.url = <<>>
        \/ id.username # <<>> /\ id.profile_name \notin {<<>>, id.username}
                               /\ id.url = <<"https", ":", "/", "/", "x.com", "/", "alicew">>}

\* A caller calls find_channels_for_user(username, profile_name, url).
CallFind ==
    /\ load_pc = "done"
    /\ f_pc = "idle"
    /\ \E id \in FindIdentities : FindBegin(id)
    /\ UNCHANGED <<appVars, poolVars, poolObs, searchVars>>

\* The caller receives results.
FindReturns ==
    /\ f_pc = "done"
    /\ FindReset
    /\ UNCHANGED <<appVars, poolVars, poolObs, searchVars>>

\* The channel finder on a constructed pool, called again and again.
NextFind == CallFind \/ find_channels_for_user \/ search_with_requests \/ FindReturns

\* The pools the channel finder is checked with: up to MaxFindPool copies of
\* one endpoint.
MaxFindPool == 1
InitFind ==
    /\ InitLoaded
    /\ Len(proxies) <= MaxFindPool
    /\ \A i \in 1..Len(proxies) : RowOf(proxies[i]) = [ip |-> 1, port |-> 80]

SpecFind == InitFind /\ [][NextFind]_vars

-----------------------------------------------------------------------------
\* main, validate_csv and process_users_with_real_logic

\* required_columns = ['username', 'profile_name', 'url', 'followers']
required_columns == {"username", "profile_name", "url", "followers"}

\* The rows of an uploaded table.  A row carries a value for each required
\* column; the value of a column the table lacks is never read.
MaxUsers == 3
TableRows ==
    {[username |-> NaN, profile_name |-> NaN,
      url |-> <<"https", ":", "/", "/", "x.com", "/", "alicew">>, followers |-> 10],
     [username |-> <<"alice">>, profile_name |-> <<"Alice", " ", "W">>,
      url |-> NaN, followers |-> 20]}

\* The column sets of an uploaded table.
ColumnSets ==
    {required_columns, required_columns \cup {"notes"},
     required_columns \ {"followers"}, {"username"}}

\* The tables pd.read_csv(uploaded_file) can yield.
Tables == [columns : ColumnSets, rows : SeqsUpTo(TableRows, MaxUsers)]

\* df['username'].isna().all()
AllUsernamesNa(df) == \A k \in 1..Len(df.rows) : df.rows[k].username = NaN

\* validate_csv without the check of the username column.
validate_csv_skips_usernames(df) ==
    IF ~(required_columns \subseteq df.columns)
    THEN [is_valid |-> FALSE, message |-> "Missing columns"]
    ELSE IF df.rows = <<>>
    THEN [is_valid |-> FALSE, message |-> "CSV file is empty"]
    ELSE [is_valid |-> TRUE, message |-> "Valid CSV format"]

\* validate_csv(df): (is_valid, message)
validate_csv(df) ==
    IF ~(required_columns \subseteq df.columns)
    THEN [is_valid |-> FALSE, message |-> "Missing columns"]
    ELSE IF df.rows = <<>>
    THEN [is_valid |-> FALSE, message |-> "CSV file is empty"]
    ELSE IF AllUsernamesNa(df)
    THEN [is_valid |-> FALSE, message |-> "No valid usernames found"]
    ELSE [is_valid |-> TRUE, message |-> "Valid CSV format"]

\* channels['youtube_url'] or ''
OrEmpty(t) == IF Truthy(t) THEN t ELSE <<>>

\* result_row of the try branch.
ResultRow(row, channels) ==
    [username |-> row.username, profile_name |-> row.profile_name, url |-> row.url,
     followers |-> row.followers,
     youtube_url |-> OrEmpty(channels.youtube_url), youtube_score |-> channels.youtube_score,
     twitch_url |-> OrEmpty(channels.twitch_url), twitch_score |-> channels.twitch_score]

\* result_row of the except branch, its urls None in place of ''.
ErrorRowNone(row) ==
    [username |-> row.username, profile_name |-> row.profile_name, url |-> row.url,
     followers |-> row.followers,
     youtube_url |-> NoneStr, youtube_score |-> 0, twitch_url |-> NoneStr, twitch_score |-> 0]

\* result_row of the except branch.
ErrorRow(row) ==
    [username |-> row.username, profile_name |-> row.profile_name, url |-> row.url,
     followers |-> row.followers,
     youtube_url |-> <<>>, youtube_score |-> 0, twitch_url |-> <<>>, twitch_score |-> 0]

\* What best_match can be when a platform's query loop ends: no match, or
\* an accepted match (a strong one on youtube, a floored one on twitch).
BestMatches(plat) ==
    {NoMatch,
     [score |-> MinimumScore(IF plat = "youtube" THEN 80 ELSE 49),
      title |-> <<"A", "l", "i", "c", "e">>,
      url |-> IF plat = "youtube" THEN YT_CHANNEL ELSE TW_CHANNEL]}

\* What find_channels_for_user can return: the stores of both platforms.
ChannelResults ==
    {StoreBest(StoreBest(NoChannels, "youtube", y), "twitch", t) :
        y \in BestMatches("youtube"), t \in BestMatches("twitch")}

\* One run of main up to the processing section: read the uploaded file,
\* validate it, report, and take the click of the start button.  The file
\* uploader keeps the file a session has uploaded, and the button is
\* clicked in a session that shows no results yet.
MainRun ==
    /\ m_pc = "idle"
    /\ \E df \in (IF upload = NoTable THEN Tables \cup {NoTable} ELSE {upload}),
          clicked \in (IF results_df = NoResults THEN BOOLEAN ELSE {FALSE}) :
        /\ upload' = df
        /\ b_calls' = 0
        /\ IF df = NoTable
           THEN /\ message' = "instructions"
                /\ UNCHANGED <<m_pc, processing>>
           ELSE LET v == validate_csv(df)
                IN /\ message' = v.message
                   /\ IF v.is_valid /\ processing
                      THEN m_pc' = "process" /\ UNCHANGED processing
                      ELSE IF v.is_valid /\ clicked
                      THEN m_pc' = "idle" /\ processing' = TRUE
                      ELSE UNCHANGED <<m_pc, processing>>
    /\ UNCHANGED <<results_df, b_df, b_i, b_results, b_slept, b_outcomes>>
    /\ UNCHANGED <<poolVars, poolObs, searchVars, findVars, callVars>>

\* process_users_with_real_logic is entered: the proxy manager and the
\* channel finder are constructed, results = [].
BatchStart ==
    /\ m_pc = "process"
    /\ b_df' = upload
    /\ b_i' = 1
    /\ b_results' = <<>>
    /\ b_outcomes' = <<>>
    /\ b_slept' = 0
    /\ m_pc' = "row"
    /\ UNCHANGED <<upload, processing, results_df, message, b_calls>>
    /\ UNCHANGED <<poolVars, poolObs, searchVars, findVars, callVars>>

\* A constructor raises (UserAgent, EnhancedMatcher): main's handler reports
\* the failure and clears the processing flag.
BatchConstructRaises ==
    /\ m_pc = "process"
    /\ message' = "Processing failed"
    /\ processing' = FALSE
    /\ m_pc' = "idle"
    /\ UNCHANGED <<upload, results_df, b_df, b_i, b_results, b_slept, b_outcomes, b_calls>>
    /\ UNCHANGED <<poolVars, poolObs, searchVars, findVars, callVars>>

\* The body of the row loop whose except branch appends nothing.
BatchRowDropsFailed ==
    /\ m_pc = "row"
    /\ b_i <= Len(b_df.rows)
    /\ LET row == b_df.rows[b_i]
       IN \/ \E channels \in ChannelResults :
                /\ b_results' = Append(b_results, ResultRow(row, channels))
                /\ b_outcomes' = Append(b_outcomes, "ok")
          \/ /\ b_results' = b_results
             /\ b_outcomes' = Append(b_outcomes, "raised")
    /\ b_calls' = b_calls + 1
    /\ b_slept' \in 3..6
    /\ b_i' = b_i + 1
    /\ UNCHANGED <<m_pc, upload, processing, results_df, message, b_df>>
    /\ UNCHANGED <<poolVars, poolObs, searchVars, findVars, callVars>>

\* The body of the row loop: find_channels_for_user returns channels or
\* raises, one row is appended either way, then the jitter between users.
BatchRow ==
    /\ m_pc = "row"
    /\ b_i <= Len(b_df.rows)
    /\ LET row == b_df.rows[b_i]
       IN \/ \E channels \in ChannelResults :
                /\ b_results' = Append(b_results, ResultRow(row, channels))
                /\ b_outcomes' = Append(b_outcomes, "ok")
          \/ /\ b_results' = Append(b_results, ErrorRow(row))
             /\ b_outcomes' = Append(b_outcomes, "raised")
    /\ b_calls' = b_calls + 1
    /\ b_slept' \in 3..6
    /\ b_i' = b_i + 1
    /\ UNCHANGED <<m_pc, upload, processing, results_df, message, b_df>>
    /\ UNCHANGED <<poolVars, poolObs, searchVars, findVars, callVars>>

\* The loop is over: return pd.DataFrame(results); main stores it and clears
\* the processing flag.
BatchReturn ==
    /\ m_pc = "row"
    /\ b_i > Len(b_df.rows)
    /\ results_df' = b_results
    /\ processing' = FALSE
    /\ message' = "Processing completed"
    /\ m_pc' = "idle"
    /\ UNCHANGED <<upload, b_df, b_i, b_results, b_slept, b_outcomes, b_calls>>
    /\ UNCHANGED <<poolVars, poolObs, searchVars, findVars, callVars>>

process_users_with_real_logic == BatchStart \/ BatchRow \/ BatchReturn

\* A session of the application, run without proxies.
InitBatch == InitLoaded /\ proxies = <<>>
NextBatch == MainRun \/ BatchConstructRaises \/ process_users_with_real_logic
SpecBatch == InitBatch /\ [][NextBatch]_vars

-----------------------------------------------------------------------------
\* SyncURLFilter called on its own.

\* urllib.parse.quote of a token: the inverse of UnquoteToken.
QuoteToken(t) ==
    CASE t = ":" -> "%3A"
      [] t = "/" -> "%2F"
      [] t = "@" -> "%40"
      [] OTHER -> t
QuoteUrl(u) == [i \in 1..Len(u) |-> QuoteToken(u[i])]

\* The redirect link of a result: '/url?q=<target>&sa=U'.
Wrap(target) == RedirectPrefix \o target \o <<"&", "sa=U">>

YT_C == <<"https", ":", "/", "/", "www.", "youtube.com", "/", "c", "/", "alice">>
YT_USER == <<"https", ":", "/", "/", "youtube.com", "/", "user", "/", "alice">>
YT_CHANNEL_ID == <<"https", ":", "/", "/", "www.", "youtube.com", "/", "channel", "/", "UC1">>
\* 'https://www.youtube.com/results?q=/c/x': a pattern in the query only.
YT_RESULTS == <<"https", ":", "/", "/", "www.", "youtube.com", "/", "results", "?", "q=",
                "/", "c", "/", "x">>
\* 'https://example.com/@youtube.com': another domain, the text in its path.
OTHER_DOMAIN == <<"https", ":", "/", "/", "example.com", "/", "@", "youtube.com">>
\* 'https://twitch.tv/'
TW_ROOT == <<"https", ":", "/", "/", "twitch.tv", "/">>
\* 'https://www.twitch.tv/alice/videos'
TW_VIDEOS == <<"https", ":", "/", "/", "www.", "twitch.tv", "/", "alice", "/", "videos">>

\* The canonical channel URLs and their redirect-wrapped forms, plain and
\* percent-encoded.
CanonicalYoutube == {YT_CHANNEL, YT_C, YT_USER, YT_CHANNEL_ID}
WrappedForms(u) == {Wrap(u), Wrap(QuoteUrl(u))}

\* The URLs the filters are called with.
FilterUrls ==
    {<<>>, YT_WATCH, YT_RESULTS, OTHER_DOMAIN, TW_CHANNEL, TW_BARE, TW_ROOT, TW_VIDEOS}
    \cup CanonicalYoutube
    \cup UNION {WrappedForms(u) : u \in CanonicalYoutube \cup {TW_CHANNEL}}

\* A call of a pure function: the call before it is remembered.
Called(fn, input, output) ==
    /\ call' = [fn |-> fn, input |-> input, output |-> output]
    /\ prev' = call
    /\ UNCHANGED <<poolVars, poolObs, searchVars, findVars, batchVars>>

CallFilterYoutube ==
    \E url \in FilterUrls : Called("filter_youtube_url", url, filter_youtube_url(url))

CallFilterTwitch ==
    \E url \in FilterUrls : Called("filter_twitch_url", url, filter_twitch_url(url))

\* The URL filter under any sequence of calls.
InitCalls == InitLoaded /\ proxies = <<>>
NextFilter == CallFilterYoutube \/ CallFilterTwitch
SpecFilter == InitCalls /\ [][NextFilter]_vars

-----------------------------------------------------------------------------
\* The query construction and the name extraction called on their own.

\* The profile URLs extract_name_from_url is called with; 'www.x.com' and
\* 'netflix.com' are hosts that hold the text 'x.com'.
X_ALICEW == <<"https", ":", "/", "/", "x.com", "/", "alicew">>
X_ALICE == <<"https", ":", "/", "/", "x.com", "/", "alice">>
X_SETTINGS == <<"https", ":", "/", "/", "x.com", "/", "settings">>
X_ROOT == <<"https", ":", "/", "/", "x.com", "/">>
TWITTER_BOB == <<"https", ":", "/", "/", "twitter.com", "/", "@", "bob", "?", "lang=en">>
WWW_X_ALICE == <<"https", ":", "/", "/", "www.", "x.com", "/", "alice">>
NETFLIX_BOB == <<"https", ":", "/", "/", "netfli", "x.com", "/", "bob">>
TWITCH_SOMEUSER == <<"https", ":", "/", "/", "twitch.tv", "/", "someuser", "?", "ref=x">>
EXAMPLE_CAROL == <<"https", ":", "/", "/", "example.com", "/", "users", "/", "carol">>

NameUrls ==
    {X_ALICEW, X_ALICE, X_SETTINGS, X_ROOT, TWITTER_BOB, WWW_X_ALICE, NETFLIX_BOB,
     TWITCH_SOMEUSER, EXAMPLE_CAROL, <<"alice">>, NaN}

\* The identities the queries are built for: each field a string, empty, or
\* a missing cell.
QueryIdentities ==
    [username : {<<>>, <<"alice">>, NaN},
     profile_name : {<<>>, <<"alice">>, <<"Alice", " ", "W">>, NaN},
     url : {<<>>, X_ALICEW, X_ALICE, X_SETTINGS, NaN}]

CallExtractName ==
    \E url \in NameUrls : Called("extract_name_from_url", url, extract_name_from_url(url))

CallBuildQueries ==
    \E id \in QueryIdentities :
        Called("queries", id, BuildQueries(id.username, id.profile_name, id.url))

NextQueries == CallExtractName \/ CallBuildQueries
SpecQueries == InitCalls /\ [][NextQueries]_vars

-----------------------------------------------------------------------------
\* The extraction of search_with_requests on a parsed document.

\* search_result_selectors
search_result_selectors == <<"div.g", "div[data-ved]", ".yuRUbf", "div.tF2Cxc">>

\* What soup.select(selector) can yield: nothing, a container without a
\* title, a container linking to twitch, a container linking to youtube.
SelectedLists ==
    {<<>>,
     <<[title |-> NoneStr, href |-> YT_CHANNEL]>>,
     <<[title |-> <<"A", "l", "i", "c", "e">>, href |-> TW_CHANNEL]>>,
     <<[title |-> <<"A", "l", "i", "c", "e">>, href |-> YT_CHANNEL]>>}

\* A parsed document: the elements each selector matches, and its anchors.
Documents ==
    [select : [Range(search_result_selectors) -> SelectedLists],
     all_links : SeqsUpTo(Anchors, MaxLinks)]

\* The selector loop without its break: the last selector's elements.
SelectDivsNoBreak(doc, i) == doc.select[search_result_selectors[Len(search_result_selectors)]]

\* for selector in search_result_selectors: search_divs = soup.select(selector);
\* if search_divs: break -- from the i-th selector on.
RECURSIVE SelectDivs(_, _)
SelectDivs(doc, i) ==
    IF i > Len(search_result_selectors) THEN <<>>
    ELSE IF doc.select[search_result_selectors[i]] # <<>>
         THEN doc.select[search_result_selectors[i]]
         ELSE SelectDivs(doc, i + 1)

\* The page a document is to the extraction.
PageOf(doc) == [search_divs |-> SelectDivs(doc, 1), all_links |-> doc.all_links]

\* if not search_divs: direct link extraction, else: structured results.
ExtractionPath(page) == IF page.search_divs = <<>> THEN "direct" ELSE "structured"

\* The extraction applied to a document, once in a behaviour: the branch
\* taken and the results.
CallExtract ==
    /\ call = NoCall
    /\ \E doc \in Documents, plat \in Platforms :
          LET page == PageOf(doc)
          IN call' = [fn |-> "extract",
                      input |-> [doc |-> doc, platform |-> plat],
                      output |-> [path |-> ExtractionPath(page),
                                  results |-> Extract(page, plat)]]
    /\ UNCHANGED prev
    /\ UNCHANGED <<poolVars, poolObs, searchVars, findVars, batchVars>>

NextExtract == CallExtract
SpecExtract == InitCalls /\ [][NextExtract]_vars

-----------------------------------------------------------------------------
\* Properties of the proxy pool.

PoolKeys == {ProxyKey(proxies[i]) : i \in 1..Len(proxies)}
LiveKeys == PoolKeys \ failed_proxies
Distinct(s) == \A i, j \in 1..Len(s) : i # j => s[i] # s[j]

\* C1: once mark_proxy_failed(e) has been called, no later get_next_proxy()
\* returns e, whatever calls came in between and wherever the index stands.
C1_FailedNeverReturned ==
    (lastOp = "get" /\ lastRet # NoProxy) => ProxyKey(lastRet) \notin marked

\* A get_next_proxy() that wrapped the index around, in a pool of two or
\* more with one of its endpoints marked, and returned an endpoint.
C1_Witness ==
    /\ lastOp = "get"
    /\ lastRet # NoProxy
    /\ Len(proxies) >= 2
    /\ current_index = 0
    /\ marked \cap PoolKeys # {}

\* C2: in a pool of N distinct endpoints with an empty failure set, any N
\* consecutive get_next_proxy() calls return each endpoint exactly once.
C2_RoundRobin ==
    (/\ load_pc = "done"
     /\ failed_proxies = {}
     /\ Distinct(proxies)
     /\ Len(proxies) >= 1
     /\ Len(hist) = Len(proxies))
    => \A e \in Range(proxies) : Cardinality({i \in 1..Len(hist) : hist[i] = e}) = 1

\* N = 3 calls that did not start at index 0 and wrapped around.
C2_Witness ==
    /\ load_pc = "done"
    /\ failed_proxies = {}
    /\ Distinct(proxies)
    /\ Len(proxies) = 3
    /\ Len(hist) = 3
    /\ current_index = 1
    /\ lastOp = "get"

\* C3: get_next_proxy() returns None exactly when the pool is empty or all
\* of its endpoints are failed; otherwise it returns a pool endpoint that is
\* not in the failure set.
C3_NoneIffNoLive ==
    lastOp = "get" =>
        /\ (LiveKeys = {} => lastRet = NoProxy)
        /\ (LiveKeys # {} =>
                /\ lastRet \in Range(proxies)
                /\ ProxyKey(lastRet) \notin failed_proxies)

\* get_next_proxy() on a pool of two endpoints, one failed, returned the other.
C3_Witness ==
    /\ lastOp = "get"
    /\ Len(proxies) >= 2
    /\ Cardinality(LiveKeys) = 1
    /\ failed_proxies \cap PoolKeys # {}
    /\ lastRet # NoProxy

\* The source is a file that cannot be read as a table of ip/port rows.
Malformed ==
    /\ proxy_file.exists
    /\ \/ ~proxy_file.readable
       \/ BadRow \in Range(proxy_file.rows)
Absent == ~proxy_file.exists

\* C4 as stated: after loading an absent or malformed source the pool is
\* empty and a warning was logged, and loading did not raise.
C4_AsStated ==
    /\ load_pc # "raised"
    /\ (load_pc = "done" /\ (Absent \/ Malformed)) => (proxies = <<>> /\ warned)

\* C4 amended: loading never raises; a malformed source leaves an empty pool
\* and a warning, also when rows were read before the failure; an absent
\* source leaves an empty pool and logs nothing.
C4_LoadFailsToEmpty ==
    /\ load_pc # "raised"
    /\ (load_pc = "done" /\ Malformed) => (proxies = <<>> /\ warned)
    /\ (load_pc = "done" /\ Absent) => (proxies = <<>> /\ ~warned /\ ~informed)

\* A source whose third row fails after two rows were read.
C4_Witness ==
    /\ load_pc = "done"
    /\ Malformed
    /\ load_i = 2
    /\ warned

-----------------------------------------------------------------------------
\* Properties of search_with_requests.

BotAttempts == {i \in 1..Len(attemptLog) : attemptLog[i].outcome = "bot"}
UsedProxyMarked(i) ==
    attemptLog[i].proxy # NoProxy => ProxyKey(attemptLog[i].proxy) \in failed_proxies

\* C5 as stated: when an attempt received a status-200 page with the
\* bot-detection phrase, search() returns the empty list and the proxy of
\* that attempt (if any) is in the failure set.
C5_AsStated ==
    (s_pc = "returned" /\ BotAttempts # {}) =>
        /\ s_ret = <<>>
        /\ \A i \in BotAttempts : UsedProxyMarked(i)

\* C5 amended: the proxy of an attempt that received the bot-detection page
\* is in the failure set afterwards, and search() then returns the empty
\* list unless a later attempt of the same call received a status-200 page
\* without the phrase.
C5_BotPageMarksProxy ==
    /\ \A i \in BotAttempts : UsedProxyMarked(i)
    /\ (s_pc = "returned" /\ BotAttempts # {}) =>
            \/ s_ret = <<>>
            \/ \E i \in BotAttempts : \E j \in (i + 1)..Len(attemptLog) :
                   attemptLog[j].outcome = "ok"

\* All three attempts received the bot-detection page, the first through a
\* proxy, and search() returned.
C5_Witness ==
    /\ s_pc = "returned"
    /\ Len(attemptLog) = max_proxy_attempts
    /\ BotAttempts = 1..max_proxy_attempts
    /\ attemptLog[1].proxy # NoProxy

\* C6: search() never raises; it returns a list, and the empty list when all
\* three attempts failed.
C6_SearchNeverRaises ==
    /\ s_pc # "raised"
    /\ s_pc = "returned" =>
        /\ s_ret \in ExtractedLists(s_args.platform) \cup {<<>>}
        /\ (/\ Len(attemptLog) = max_proxy_attempts
            /\ \A i \in 1..Len(attemptLog) : attemptLog[i].outcome # "ok") => s_ret = <<>>

\* A call whose attempts ended with a request exception, a non-200 status
\* and a parse error.
C6_Witness ==
    /\ s_pc = "returned"
    /\ Len(attemptLog) = max_proxy_attempts
    /\ attemptLog[1].outcome = "exception"
    /\ attemptLog[2].outcome = "bad_status"
    /\ attemptLog[3].outcome = "parse_error"

-----------------------------------------------------------------------------
\* Properties of find_channels_for_user.

ResultUrl(p) == IF p = "youtube" THEN results.youtube_url ELSE results.twitch_url
ResultScore(p) == IF p = "youtube" THEN results.youtube_score ELSE results.twitch_score
Max50(n) == IF n < 50 THEN 50 ELSE n

\* C7: once a result is accepted for a platform with score s >= 50, nothing
\* more is searched or scored for that platform, and the platform's output
\* score is exactly s.
C7_EarlyExit ==
    /\ ~late
    /\ \A p \in Platforms : accepted[p] # NoAccept => accepted[p].score >= 50
    /\ f_pc = "done" =>
        \A p \in Platforms : accepted[p] # NoAccept => ResultScore(p) = accepted[p].score

\* Three queries, the first YouTube search yields a match of score 80: one
\* YouTube search only, and the output score is 80.
C7_Witness ==
    /\ f_pc = "done"
    /\ Len(queries) = 3
    /\ accepted["youtube"] # NoAccept
    /\ accepted["youtube"].score = 80
    /\ nsearch["youtube"] = 1
    /\ results.youtube_score = 80

\* C8: the score of an accepted match is max(computed score, 50), in
\* best_match and in the output.
C8_ScoreFloor ==
    /\ (f_pc = "store" /\ accepted[Plat] # NoAccept) =>
            best_match.score = Max50(accepted[Plat].computed)
    /\ f_pc = "done" =>
        \A p \in Platforms :
            accepted[p] # NoAccept => ResultScore(p) = Max50(accepted[p].computed)

\* A Twitch match computed at 49 is output as 50, a YouTube match computed
\* at 80 as 80.
C8_Witness ==
    /\ f_pc = "done"
    /\ accepted["twitch"] # NoAccept
    /\ accepted["twitch"].computed = 49
    /\ results.twitch_score = 50
    /\ accepted["youtube"] # NoAccept
    /\ accepted["youtube"].computed = 80
    /\ results.youtube_score = 80

\* C9: per platform the url of results is populated if and only if the score
\* is >= 50; otherwise the url is empty and the score is 0.
C9_UrlIffScore ==
    \A p \in Platforms :
        /\ Truthy(ResultUrl(p)) <=> ResultScore(p) >= 50
        /\ ~Truthy(ResultUrl(p)) => ResultScore(p) = 0

\* A returned result with a Twitch channel and no YouTube channel, after
\* YouTube searches were made.
C9_Witness ==
    /\ f_pc = "done"
    /\ Truthy(results.twitch_url)
    /\ ~Truthy(results.youtube_url)
    /\ nsearch["youtube"] >= 1

\* C10: an exception raised while one query is searched or scored is caught
\* and the query counts as zero results: find_channels_for_user does not
\* raise, and every platform without a match has had all queries searched.
C10_ExceptionIsolated ==
    /\ f_pc # "raised"
    /\ f_pc = "except" => best_match = NoMatch
    /\ f_pc = "done" =>
        \A p \in Platforms : accepted[p] = NoAccept => nsearch[p] = Len(queries)

\* The second YouTube query is being searched after the first one raised.
C10_Witness ==
    /\ caught
    /\ f_pc = "searching"
    /\ platform = 1
    /\ qi = 2
    /\ Len(queries) = 3

-----------------------------------------------------------------------------
\* Properties of the batch.

\* The input columns of an output row.
InputOf(r) ==
    [username |-> r.username, profile_name |-> r.profile_name, url |-> r.url,
     followers |-> r.followers]

\* C11: process_users_with_real_logic produces exactly one output row per
\* input row, in input order, whatever rows find_channels_for_user raised
\* for: inside the loop one row stands for each row passed, and the table
\* it returns has the rows of df in their order.
C11_OneRowPerInput ==
    /\ m_pc = "row" =>
          /\ Len(b_results) = b_i - 1
          /\ Len(b_outcomes) = b_i - 1
          /\ \A k \in 1..Len(b_results) : InputOf(b_results[k]) = b_df.rows[k]
    /\ (m_pc # "row" /\ results_df # NoResults) =>
          /\ Len(results_df) = Len(b_df.rows)
          /\ \A k \in 1..Len(results_df) : InputOf(results_df[k]) = b_df.rows[k]

\* A table of three rows was returned, its first and last rows having raised.
C11_Witness ==
    /\ m_pc = "idle"
    /\ results_df # NoResults
    /\ Len(results_df) = 3
    /\ b_outcomes = <<"raised", "ok", "raised">>

\* C12: a row find_channels_for_user raised for gets empty urls and zero
\* scores, the rows of the other identities are those of their channels,
\* and appending a row never changes the rows before it nor ends the loop.
C12_FailedRowIsEmpty ==
    /\ [](\A k \in 1..Len(b_outcomes) :
            /\ k <= Len(b_results)
            /\ b_outcomes[k] = "raised" =>
                  /\ InputOf(b_results[k]) = b_df.rows[k]
                  /\ b_results[k].youtube_url = <<>> /\ b_results[k].youtube_score = 0
                  /\ b_results[k].twitch_url = <<>> /\ b_results[k].twitch_score = 0
            /\ b_outcomes[k] = "ok" =>
                  \E channels \in ChannelResults : b_results[k] = ResultRow(b_df.rows[k], channels))
    /\ [][Len(b_outcomes') > Len(b_outcomes) =>
            /\ m_pc' = "row"
            /\ b_i' = b_i + 1
            /\ Len(b_results') = Len(b_results) + 1
            /\ SubSeq(b_results', 1, Len(b_results)) = b_results]_vars

\* A row raised between two rows that found channels.
C12_Witness ==
    /\ m_pc = "row"
    /\ b_outcomes = <<"ok", "raised", "ok">>
    /\ b_results[1].youtube_score = 80
    /\ b_results[2].youtube_url = <<>>
    /\ b_results[3].twitch_score = 50

\* The claim's reasons for a table to be invalid.
LacksColumn(df) == \E col \in required_columns : col \notin df.columns
InvalidTable(df) == LacksColumn(df) \/ df.rows = <<>> \/ AllUsernamesNa(df)
ErrorMessages == {"Missing columns", "CSV file is empty", "No valid usernames found"}

\* C13: for a table that lacks a required column, is empty or has only
\* empty usernames, main reports a validation error and processes nothing:
\* no find_channels_for_user call, no search, no row.
C13_InvalidTableNotProcessed ==
    (upload # NoTable /\ InvalidTable(upload)) =>
        /\ message \in ErrorMessages
        /\ m_pc = "idle"
        /\ ~processing
        /\ b_calls = 0
        /\ b_results = <<>>
        /\ s_pc = "idle"
        /\ f_pc = "idle"

\* A table with all columns and two rows, none with a username.
C13_Witness ==
    /\ upload # NoTable
    /\ Len(upload.rows) = 2
    /\ upload.columns = required_columns
    /\ message = "No valid usernames found"

-----------------------------------------------------------------------------
\* Properties of the URL filter.

\* The host of a URL: what stands between '//' and the next '/'.
HostOf(u) ==
    LET i == Find(u, <<"/", "/">>)
    IN IF i = 0 THEN <<>>
       ELSE LET rest == SubSeq(u, i + 2, Len(u))
                j == Find(rest, <<"/">>)
            IN IF j = 0 THEN rest ELSE SubSeq(rest, 1, j - 1)

\* The path of a URL: from the '/' after the host up to the '?'.
PathOf(u) ==
    LET i == Find(u, <<"/", "/">>)
        rest == IF i = 0 THEN <<>> ELSE SubSeq(u, i + 2, Len(u))
        j == Find(rest, <<"/">>)
        tail == IF j = 0 THEN <<>> ELSE SubSeq(rest, j, Len(rest))
        k == Find(tail, <<"?">>)
    IN IF k = 0 THEN tail ELSE SubSeq(tail, 1, k - 1)

DomainIs(u, domain) == HostOf(u) \in {<<domain>>, <<"www.", domain>>}

\* The path segments of a URL that are not empty.
Segments(u) == {seg \in Range(Split(PathOf(u), <<"/">>)) : seg # <<>>}

\* C14: filter_twitch_url returns None for the bare root of twitch.tv, also
\* with a trailing slash, and the URL itself for a twitch.tv URL with a
\* channel segment.
C14_AsStated ==
    (call.fn = "filter_twitch_url" /\ DomainIs(call.input, "twitch.tv")) =>
        /\ Segments(call.input) = {} => call.output = NoneStr
        /\ Segments(call.input) # {} => call.output = call.input

\* C15: filter_youtube_url returns a URL only if its domain is youtube.com
\* and its path holds one of the patterns; None for every other URL.
C15_AsStated ==
    (call.fn = "filter_youtube_url" /\ call.output # NoneStr) =>
        /\ DomainIs(call.output, "youtube.com")
        /\ \E pattern \in valid_patterns : Contains(PathOf(call.output), pattern)

\* C16: filter_youtube_url gives the same result for a canonical URL and for
\* its redirect-wrapped forms, and returns its own output unchanged.
C16_AsStated ==
    (call.fn = "filter_youtube_url" /\ prev.fn = "filter_youtube_url") =>
        /\ (prev.input \in CanonicalYoutube /\ call.input \in WrappedForms(prev.input)) =>
              call.output = prev.output
        /\ (prev.output # NoneStr /\ call.input = prev.output) => call.output = call.input

-----------------------------------------------------------------------------
\* Properties of the query construction and the name extraction.

\* A field that is there: neither empty nor a missing cell.
Present(value) == value # <<>> /\ value # NaN

Quoted(name) == <<Q>> \o name \o <<Q>>

\* The claim's ordered sequence of queries, its absent entries left out.
ExpectedQueries(id) ==
    LET name == IF Present(id.url) THEN extract_name_from_url(id.url) ELSE <<>>
        e1 == IF Present(id.username) THEN <<Quoted(id.username)>> ELSE <<>>
        e2 == IF Present(id.profile_name) /\ id.profile_name # id.username
              THEN <<Quoted(id.profile_name)>> ELSE <<>>
        e3 == IF Present(id.username) /\ Present(id.profile_name)
              THEN <<id.username \o <<" ">> \o id.profile_name>> ELSE <<>>
        e4 == IF name # <<>> /\ name \notin {id.username, id.profile_name}
              THEN <<Quoted(name)>> ELSE <<>>
    IN e1 \o e2 \o e3 \o e4

\* C17: the query list is the first three entries of [quoted username;
\* quoted display name if distinct; "username displayName" if both present;
\* quoted URL-extracted name if distinct from both], it never holds more
\* than three queries and never two equal ones.
C17_AsStated ==
    call.fn = "queries" =>
        /\ Len(call.output) <= 3
        /\ Distinct(call.output)
        /\ LET expected == ExpectedQueries(call.input)
           IN call.output = SubSeq(expected, 1, Min(3, Len(expected)))

\* The segments of a URL's path and the claim's cleaning of one.
PathSegments(u) == Tail(Split(PathOf(u), <<"/">>))
Cleaned(seg) == Remove(seg, "@")

\* C18: extract_name_from_url returns, for a URL of x.com or twitter.com,
\* the segment after the domain without query parameters and '@', or ""
\* when that segment is a reserved path; for a URL of another domain the
\* final path segment, cleaned the same way; it always returns.
C18_AsStated ==
    (call.fn = "extract_name_from_url" /\ HostOf(call.input) # <<>>) =>
        LET segs == PathSegments(call.input)
            first == IF segs = <<>> THEN <<>> ELSE Cleaned(segs[1])
            final == IF segs = <<>> THEN <<>> ELSE Cleaned(segs[Len(segs)])
        IN IF DomainIs(call.input, "x.com") \/ DomainIs(call.input, "twitter.com")
           THEN call.output = IF first \in ReservedPaths THEN <<>> ELSE first
           ELSE call.output = final

-----------------------------------------------------------------------------
\* Properties of the search engine's attempts.

\* C19: a search_with_requests call makes at most three attempts and at
\* most three requests; in an attempt the proxy is obtained first, then the
\* 1-3 jitter is slept, then the request is issued: no request is issued
\* without the jitter right before it, with or without a proxy.
C19_JitterBeforeRequest ==
    /\ [](/\ attempt <= 3
          /\ Len(attemptLog) <= 3
          /\ s_pc = "sleep" => (slept = 0 /\ lastOp = "get" /\ lastRet = proxy)
          /\ s_pc = "request" => (slept \in 1..3 /\ lastOp = "get" /\ lastRet = proxy))
    /\ [][Len(attemptLog') > Len(attemptLog) => (s_pc = "request" /\ slept \in 1..3)]_vars

\* The third attempt, without a proxy, has slept and is about to request.
C19_Witness ==
    /\ s_pc = "request"
    /\ attempt = 2
    /\ Len(attemptLog) = 2
    /\ proxy = NoProxy
    /\ slept = 3

-----------------------------------------------------------------------------
\* Properties of the extraction.

\* Some container selector matched an element of the document.
SelectorMatched(doc) == \E sel \in Range(search_result_selectors) : doc.select[sel] # <<>>

\* A container that yields a candidate for the platform.
Qualifies(container, plat) ==
    /\ container.title # NoneStr
    /\ container.href # NoneStr
    /\ Contains(container.href, PlatformDomain(plat))

\* No container of the first selector that matched yields a candidate.
NoCandidate(doc, plat) ==
    \A i \in 1..Len(search_result_selectors) :
        (\A j \in 1..(i - 1) : doc.select[search_result_selectors[j]] = <<>>) =>
            \A container \in Range(doc.select[search_result_selectors[i]]) :
                ~Qualifies(container, plat)

\* C20: the direct link extraction runs exactly when no container selector
\* matched anything; when a selector matched and no container yields a
\* candidate of the platform, the result is the empty list, whatever the
\* document's anchors are.
C20_FallbackIffNoContainer ==
    call.fn = "extract" =>
        LET doc == call.input.doc
            plat == call.input.platform
        IN /\ call.output.path = "direct" <=> ~SelectorMatched(doc)
           /\ (SelectorMatched(doc) /\ NoCandidate(doc, plat)) =>
                 (call.output.path = "structured" /\ call.output.results = <<>>)
           /\ ~SelectorMatched(doc) => call.output.results = DirectLinks(doc.all_links, plat)

\* The first selector matched nothing, the second a container without a
\* candidate; the document's anchor would have been a direct link.
C20_Witness ==
    /\ call.fn = "extract"
    /\ call.input.platform = "youtube"
    /\ call.input.doc.select["div.g"] = <<>>
    /\ call.input.doc.select["div[data-ved]"] # <<>>
    /\ NoCandidate(call.input.doc, "youtube")
    /\ DirectLinks(call.input.doc.all_links, "youtube") # <<>>
    /\ call.output.results = <<>>

-----------------------------------------------------------------------------
\* Properties of the rate limiting between queries.

\* C21: within a platform pass, a query that ended without an accepted
\* match (no results, all results rejected, or an exception) is followed by
\* a 2-4 jitter sleep before the next query's search is issued.
C21_AsStated ==
    (f_pc = "query" /\ qi > 1 /\ qi <= Len(queries)) => q_slept \in 2..4

\* C22: after loading, mark_proxy_failed only adds the key of its argument to
\* the failure set and leaves the rotation list and the rotation index as they
\* were, and no operation of the pool removes an element from the failure set
\* or changes the rotation list.
C22_MarkOnlyAdds ==
    [][load_pc = "done" =>
        /\ failed_proxies \subseteq failed_proxies'
        /\ proxies' = proxies
        /\ lastOp' = "mark" =>
              /\ current_index' = current_index
              /\ Cardinality(failed_proxies' \ failed_proxies) <= 1
              /\ failed_proxies' \ failed_proxies = marked' \ marked
        /\ lastOp' = "get" => failed_proxies' = failed_proxies]_vars

\* A proxy marked after the rotation had advanced, with an earlier failure
\* still recorded next to it.
C22_Witness ==
    /\ lastOp = "mark"
    /\ current_index # 0
    /\ Cardinality(failed_proxies) >= 2
    /\ Len(proxies) >= 2

\* The attempts of the current call that are over: all the logged ones, but
\* for the last while its except branch has yet to run.
AttemptsOver ==
    {i \in 1..Len(attemptLog) : ~(i = Len(attemptLog) /\ s_pc = "except")}

\* C23: an attempt that used a proxy and ended with a bot-detection page, a
\* non-200 status or an exception leaves that proxy in the failure set; no
\* proxy serves two attempts of one call; and no attempt of the run uses a
\* proxy that an earlier attempt has marked.
C23_FailedAttemptMarksProxy ==
    /\ \A i \in AttemptsOver :
          (attemptLog[i].proxy # NoProxy /\ attemptLog[i].outcome # "ok")
              => ProxyKey(attemptLog[i].proxy) \in failed_proxies
    /\ \A i, j \in 1..Len(attemptLog) :
          (i < j /\ attemptLog[i].proxy # NoProxy)
              => attemptLog[j].proxy # attemptLog[i].proxy
    /\ (s_pc \in {"sleep", "request", "except"} /\ proxy # NoProxy)
          => ProxyKey(proxy) \notin marked

\* Two attempts of one call, each with its own proxy, the first ended by an
\* exception and the second by a non-200 status.
C23_Witness ==
    /\ s_pc = "loop"
    /\ Len(attemptLog) = 2
    /\ attemptLog[1].proxy # NoProxy
    /\ attemptLog[2].proxy # NoProxy
    /\ attemptLog[1].outcome = "exception"
    /\ attemptLog[2].outcome = "bad_status"
    /\ Cardinality(failed_proxies) = 2

\* The outcomes after which the loop goes on to another attempt.
FailedOutcomes == {"bot", "bad_status", "exception", "parse_error"}

\* C24: the call returns at the first attempt that gets a status-200 page
\* without the bot-detection phrase, with whatever was extracted, the empty
\* list included; an attempt is followed by another only when it ended with
\* a bot-detection page, a non-200 status or an exception.
C24_ReturnsAtFirstGoodPage ==
    /\ \A i \in 1..Len(attemptLog) :
          IF attemptLog[i].outcome = "ok"
          THEN i = Len(attemptLog) /\ s_pc = "returned"
          ELSE attemptLog[i].outcome \in FailedOutcomes
    /\ Len(attemptLog) \in {attempt, attempt + 1}
    /\ s_pc = "returned" =>
          \/ attemptLog # <<>> /\ attemptLog[Len(attemptLog)].outcome = "ok"
                /\ attempt = Len(attemptLog) - 1
          \/ attempt = max_proxy_attempts /\ Len(attemptLog) = max_proxy_attempts
                /\ s_ret = <<>>
                /\ \A i \in 1..Len(attemptLog) :
                      attemptLog[i].outcome \in FailedOutcomes

\* A first attempt that got a good page with nothing to extract: the call
\* has returned the empty list with two attempts unused.
C24_Witness ==
    /\ s_pc = "returned"
    /\ attempt = 0
    /\ Len(attemptLog) = 1
    /\ attemptLog[1].outcome = "ok"
    /\ s_ret = <<>>

\* The HTTP requests the current search_with_requests call has issued: one
\* per finished attempt that reached its request, and the one in flight.
RequestsIssued ==
    Len(attemptLog) + (IF s_pc = "request" THEN 1 ELSE 0)

\* The searches of the current find_channels_for_user call, over both platforms.
SearchesInvoked == nsearch["youtube"] + nsearch["twitch"]

------------------------------------------------------------------------------
\* Termination.  A run is followed at one of two levels: main with the row
\* loop of process_users_with_real_logic, the finder's call being one step of
\* the loop body, or one call of the search engine on a pool.

\* The session runs without proxies and no call of the search engine has
\* been made.
BatchLevel == proxies = <<>> /\ s_pc = "idle" /\ lastOp = "init"

\* main has not run.
SearchLevel == BatchIdle

\* The one search_with_requests call of the run.
CallSearchOnce == lastOp = "init" /\ CallSearch

InitTerminate == InitSearch
NextTerminate ==
    \/ BatchLevel /\ NextBatch
    \/ SearchLevel /\ (CallSearchOnce \/ search_with_requests \/ SearchReturns)

\* A call in progress at the level followed, and its return.
Running ==
    \/ s_pc \in {"loop", "sleep", "request", "except"}
    \/ m_pc = "row"
Returned ==
    \/ s_pc = "returned"
    \/ /\ m_pc = "idle"
       /\ message = "Processing completed"
       /\ Len(results_df) = Len(b_df.rows)

\* Every HTTP request and every sleep returns, and a call in progress
\* executes its next statement.
SpecTerminate ==
    /\ InitTerminate
    /\ [][NextTerminate]_vars
    /\ WF_vars(search_with_requests \/ process_users_with_real_logic)

\* C26: the loop of get_next_proxy ends within len(proxies) iterations, with
\* None and exactly len(proxies) iterations when every endpoint is failed; a
\* search_with_requests call never starts a fourth attempt and returns; and
\* process_users_with_real_logic, once in its row loop, never goes past the
\* last row and returns with one result per row.
C26_Terminates ==
    /\ [](LET r == get_next_proxy(proxies, current_index, failed_proxies)
          IN /\ r.iters <= Len(proxies)
             /\ LiveKeys = {} => (r.ret = NoProxy /\ r.iters = Len(proxies)))
    /\ [](attempt <= max_proxy_attempts /\ Len(attemptLog) <= max_proxy_attempts)
    /\ [](m_pc = "row" => b_i <= Len(b_df.rows) + 1)
    /\ (Running ~> Returned)

\* A search that has returned after its three attempts, the last of them
\* started on a pool whose endpoints were all failed.
C26_Witness ==
    /\ s_pc = "returned"
    /\ attempt = max_proxy_attempts
    /\ Len(proxies) >= 2
    /\ LiveKeys = {}
    /\ attemptLog[max_proxy_attempts].proxy = NoProxy

====
